---- MODULE Spec2Model ----
(***************************************************************************)
(* Feature-construction pipeline of HeartFailure_Basic.ipynb:              *)
(*   calculate_index_vid -> filter_events -> aggregate_events ->           *)
(*   create_features -> save_svmlight.                                     *)
(* Tables (pandas DataFrames) are sequences of records, in row order.      *)
(***************************************************************************)
EXTENDS Integers, Sequences, FiniteSets, TLC

\* ---------------------------------------------------------------- bounds
MaxEvents == 3
MaxPid == 2
MaxVid == 1
MaxValue == 2

Pids == 1..MaxPid
Vids == 0..MaxVid
Values == 1..MaxValue
EventIds == {"A", "B"}

\* A missing cell of a left merge (pandas NaN); no id or vid is negative.
NaN == -1
\* The module-level name feature_map: not bound by any cell, or bound to a
\* table.
Unbound == [bound |-> FALSE, table |-> {}]
Bound(t) == [bound |-> TRUE, table |-> t]

\* event_feature_map.csv contents: rows (idx, event_id), one for every
\* event id.
FullFeatureMap ==
    { [idx |-> 2, event_id |-> "A"], [idx |-> 1, event_id |-> "B"] }

\* What an earlier cell or session may have left under the module-level name
\* feature_map: the same table, or a table of another vocabulary.
FeatureMaps ==
    { FullFeatureMap, { [idx |-> 1, event_id |-> "A"] } }

EventRows == [pid : Pids, event_id : EventIds, vid : Vids, value : Values]

\* events.csv contents: any rows, in any order.
EventTables == UNION { [1..n -> EventRows] : n \in 0..MaxEvents }

\* hf_events.csv contents: at most one row per heart-failure patient.
HfTables ==
    { { [pid |-> p, vid |-> f[p], label |-> 1] : p \in DOMAIN f } :
        f \in UNION { [S -> Vids] : S \in SUBSET Pids } }

\* ---------------------------------------------------------------- helpers
RECURSIVE SeqOfIdx(_, _)
\* The rows of table t at the indices in I, in ascending index order
\* (a boolean-mask selection followed by reset_index).
SeqOfIdx(t, I) ==
    IF I = {} THEN <<>>
    ELSE LET m == CHOOSE i \in I : \A j \in I : j <= i
         IN  Append(SeqOfIdx(t, I \ {m}), t[m])

RECURSIVE Flatten(_)
Flatten(ss) ==
    IF ss = <<>> THEN <<>> ELSE Head(ss) \o Flatten(Tail(ss))

RECURSIVE SetToSeq(_)
\* Some enumeration of a finite set (the row order of a table read from a
\* file whose order does not matter to the code).
SetToSeq(S) ==
    IF S = {} THEN <<>>
    ELSE LET x == CHOOSE y \in S : TRUE IN <<x>> \o SetToSeq(S \ {x})

RECURSIVE Gcd(_, _)
Gcd(a, b) == IF b = 0 THEN a ELSE Gcd(b, a % b)

\* Python float division of two positive counts: the quotient, kept exact
\* as a reduced fraction <<numerator, denominator>>.
Divide(n, d) == LET g == Gcd(n, d) IN <<n \div g, d \div g>>

FloatLess(a, b) == a[1] * b[2] < b[1] * a[2]

\* ---------------------------------------------------------------- state
VARIABLES
    pc,                 \* next step of main()
    events,             \* events_in
    hf,                 \* hf_in
    feature_map_in,     \* feature_map_in, the argument handed down
    feature_map,        \* the module-level name feature_map
    indx_vid,           \* result of calculate_index_vid
    filtered_events,    \* result of filter_events
    aggregated_counts,  \* aggregated_events after the groupby().size()
    aggregated_events,  \* result of aggregate_events
    patient_features,   \* dict pid -> list of (feature_id, feature_value)
    hf_dict,            \* dict pid -> 1
    opened,             \* save_svmlight has executed open(op_file, 'wb')
    deliverable,        \* lines written to op_file
    data,               \* the csv files under TRAIN_DATA_PATH and VAL_DATA_PATH
    partition,          \* the data path main() has read last
    runs,               \* completed executions of main()
    files,              \* features_svmlight.train / .val on disk
    first_files,        \* the two files as the first execution left them
    sequences,          \* collate_fn: the patients' visit lists of the batch
    labels,             \* collate_fn: the patients' labels
    batch_x,            \* collate_fn: x
    masks,              \* collate_fn: masks; get_last_visit: its argument masks
    rev_x,              \* collate_fn: rev_x
    rev_masks,          \* collate_fn: rev_masks
    batch_y,            \* collate_fn: y
    hidden_states,      \* get_last_visit: its argument hidden_states
    last_hidden_states, \* get_last_visit: its result
    fold_n,             \* get_f1_kfold: n = len(Y)
    fold_k,             \* get_f1_kfold: k
    fold_i,             \* get_f1_kfold: the loop variable i
    test_idx,           \* get_f1_kfold: test_idx of the current iteration
    train_idx,          \* get_f1_kfold: train_idx of the current iteration
    folds               \* get_f1_kfold: the index lists used so far

vars == <<pc, events, hf, feature_map_in, feature_map, indx_vid,
          filtered_events, aggregated_counts, aggregated_events,
          patient_features, hf_dict, opened, deliverable,
          data, partition, runs, files, first_files,
          sequences, labels, batch_x, masks, rev_x, rev_masks, batch_y,
          hidden_states, last_hidden_states,
          fold_n, fold_k, fold_i, test_idx, train_idx, folds>>

inputs == <<events, hf, feature_map_in, feature_map>>

\* What lives outside one create_features / save_svmlight pass.
\* The state of the functions of the other notebooks.
collate == <<sequences, labels, batch_x, masks, rev_x, rev_masks, batch_y>>
last_visit == <<hidden_states, last_hidden_states>>
kfold == <<fold_n, fold_k, fold_i, test_idx, train_idx, folds>>

session == <<data, partition, runs, files, first_files, collate, last_visit, kfold>>

\* Nothing of the other notebooks has run.
NoCollate ==
    /\ sequences = <<>>
    /\ labels = <<>>
    /\ batch_x = <<>>
    /\ masks = <<>>
    /\ rev_x = <<>>
    /\ rev_masks = <<>>
    /\ batch_y = <<>>

NoLastVisit ==
    /\ hidden_states = <<>>
    /\ last_hidden_states = <<>>

NoKFold ==
    /\ fold_n = 0
    /\ fold_k = 0
    /\ fold_i = 0
    /\ test_idx = <<>>
    /\ train_idx = <<>>
    /\ folds = <<>>

\* ---------------------------------------------------------------- calculate_index_vid
\* Variant: drop_duplicates without subset=['pid'], so rows are duplicates
\* only when pid and vid both agree.
drop_duplicates_rows(t) ==
    LET keep == { i \in DOMAIN t : \A j \in DOMAIN t :
                    j > i => (t[j].pid # t[i].pid \/ t[j].vid # t[i].vid) }
        proj == [i \in DOMAIN t |-> [pid |-> t[i].pid, vid |-> t[i].vid]]
    IN  SeqOfIdx(proj, keep)

\* events[['pid','vid']].drop_duplicates(subset=['pid'], keep='last',
\* ignore_index=True): for each pid the last row of the table with that pid.
drop_duplicates_last(t) ==
    LET keep == { i \in DOMAIN t : \A j \in DOMAIN t : j > i => t[j].pid # t[i].pid }
        proj == [i \in DOMAIN t |-> [pid |-> t[i].pid, vid |-> t[i].vid]]
    IN  SeqOfIdx(proj, keep)

hf_vid(hf_t, p) == (CHOOSE r \in hf_t : r.pid = p).vid

\* Variant: a normal patient's index vid taken one past the last row's vid
\* (the number of visits instead of the last visit).
calculate_index_vid_count(events_t, hf_t) ==
    LET last == drop_duplicates_last(events_t)
        hf_pids == { r.pid : r \in hf_t }
    IN  [i \in DOMAIN last |->
            [pid |-> last[i].pid,
             indx_vid |-> IF last[i].pid \in hf_pids
                          THEN hf_vid(hf_t, last[i].pid)
                          ELSE last[i].vid + 1]]

\* Variant: the assignment indx_vid.vid[index] = ... lands on a copy and
\* the table keeps the vids of the last rows.
calculate_index_vid_unwritten(events_t, hf_t) ==
    LET last == drop_duplicates_last(events_t)
    IN  [i \in DOMAIN last |-> [pid |-> last[i].pid, indx_vid |-> last[i].vid]]

\* The loop over indx_vid.iterrows() rewrites the vid of every row whose pid
\* is in hf_pids; the rename makes the column indx_vid.
calculate_index_vid(events_t, hf_t) ==
    LET last == drop_duplicates_last(events_t)
        hf_pids == { r.pid : r \in hf_t }
    IN  [i \in DOMAIN last |->
            [pid |-> last[i].pid,
             indx_vid |-> IF last[i].pid \in hf_pids
                          THEN hf_vid(hf_t, last[i].pid)
                          ELSE last[i].vid]]

\* ---------------------------------------------------------------- filter_events
\* pd.merge(events, indx_vid, how="left", on=["pid"]): every events row once
\* per matching indx_vid row, or once with NaN when there is none.
merge_indx_vid(events_t, iv) ==
    Flatten([i \in DOMAIN events_t |->
        LET m == { j \in DOMAIN iv : iv[j].pid = events_t[i].pid }
            e == events_t[i]
        IN  IF m = {}
            THEN << [pid |-> e.pid, event_id |-> e.event_id, vid |-> e.vid,
                     value |-> e.value, indx_vid |-> NaN] >>
            ELSE SeqOfIdx([j \in DOMAIN iv |->
                     [pid |-> e.pid, event_id |-> e.event_id, vid |-> e.vid,
                      value |-> e.value, indx_vid |-> iv[j].indx_vid]], m)])

\* Variant: the window closed on the right, vid <= indx_vid.
filter_events_le(events_t, iv) ==
    LET joined == merge_indx_vid(events_t, iv)
        mask == { i \in DOMAIN joined :
                    joined[i].indx_vid # NaN /\ joined[i].vid <= joined[i].indx_vid }
    IN  SeqOfIdx([i \in DOMAIN joined |->
                    [pid |-> joined[i].pid, event_id |-> joined[i].event_id,
                     value |-> joined[i].value]], mask)

\* Variant: the mask written as ~(vid >= indx_vid), which is True on NaN.
filter_events_not_ge(events_t, iv) ==
    LET joined == merge_indx_vid(events_t, iv)
        mask == { i \in DOMAIN joined :
                    joined[i].indx_vid = NaN \/ joined[i].vid < joined[i].indx_vid }
    IN  SeqOfIdx([i \in DOMAIN joined |->
                    [pid |-> joined[i].pid, event_id |-> joined[i].event_id,
                     value |-> joined[i].value]], mask)

\* The rows with vid < indx_vid (a comparison with NaN is False), columns
\* pid, event_id, value.
filter_events(events_t, iv) ==
    LET joined == merge_indx_vid(events_t, iv)
        mask == { i \in DOMAIN joined :
                    joined[i].indx_vid # NaN /\ joined[i].vid < joined[i].indx_vid }
    IN  SeqOfIdx([i \in DOMAIN joined |->
                    [pid |-> joined[i].pid, event_id |-> joined[i].event_id,
                     value |-> joined[i].value]], mask)

\* ---------------------------------------------------------------- aggregate_events
\* pd.merge(filtered_events_df, feature_map, how="left", on=["event_id"]) and
\* the rename of idx to feature_id.
merge_feature_map(fe, fm) ==
    Flatten([i \in DOMAIN fe |->
        LET m == { r \in fm : r.event_id = fe[i].event_id }
            ms == SetToSeq(m)
        IN  IF m = {}
            THEN << [pid |-> fe[i].pid, event_id |-> fe[i].event_id,
                     value |-> fe[i].value, feature_id |-> NaN] >>
            ELSE [k \in DOMAIN ms |->
                     [pid |-> fe[i].pid, event_id |-> fe[i].event_id,
                      value |-> fe[i].value, feature_id |-> ms[k].idx]]])

KeyLess(a, b) ==
    a.pid < b.pid \/ (a.pid = b.pid /\ a.feature_id < b.feature_id)

RECURSIVE SortKeys(_)
\* The group keys in ascending (pid, feature_id) order (groupby sorts).
SortKeys(K) ==
    IF K = {} THEN <<>>
    ELSE LET m == CHOOSE k \in K : \A o \in K : o = k \/ KeyLess(k, o)
         IN  <<m>> \o SortKeys(K \ {m})

\* Variant: a dense table, one row for every patient and every feature id
\* of the merged rows, with size 0 where the patient has no such row.
group_size_dense(merged) ==
    LET ok == { j \in DOMAIN merged : merged[j].feature_id # NaN }
        keys == { [pid |-> merged[i].pid, feature_id |-> merged[j].feature_id] :
                    i \in ok, j \in ok }
        ks == SortKeys(keys)
    IN  [n \in DOMAIN ks |->
            [pid |-> ks[n].pid, feature_id |-> ks[n].feature_id,
             feature_value |->
                Cardinality({ i \in DOMAIN merged :
                                /\ merged[i].pid = ks[n].pid
                                /\ merged[i].feature_id = ks[n].feature_id })]]

RECURSIVE SumValues(_, _)
SumValues(t, I) ==
    IF I = {} THEN 0
    ELSE LET i == CHOOSE j \in I : TRUE IN t[i].value + SumValues(t, I \ {i})

\* Variant: groupby(['pid','feature_id'])['value'].sum() in place of size().
group_sum(merged) ==
    LET keys == { [pid |-> merged[i].pid, feature_id |-> merged[i].feature_id] :
                    i \in { j \in DOMAIN merged : merged[j].feature_id # NaN } }
        ks == SortKeys(keys)
    IN  [n \in DOMAIN ks |->
            [pid |-> ks[n].pid, feature_id |-> ks[n].feature_id,
             feature_value |->
                SumValues(merged, { i \in DOMAIN merged :
                                      /\ merged[i].pid = ks[n].pid
                                      /\ merged[i].feature_id = ks[n].feature_id })]]

\* groupby(['pid','feature_id']).size(): one row per key that occurs, NaN
\* keys dropped, feature_value = number of rows of the group.
group_size(merged) ==
    LET keys == { [pid |-> merged[i].pid, feature_id |-> merged[i].feature_id] :
                    i \in { j \in DOMAIN merged : merged[j].feature_id # NaN } }
        ks == SortKeys(keys)
    IN  [n \in DOMAIN ks |->
            [pid |-> ks[n].pid, feature_id |-> ks[n].feature_id,
             feature_value |->
                Cardinality({ i \in DOMAIN merged :
                                /\ merged[i].pid = ks[n].pid
                                /\ merged[i].feature_id = ks[n].feature_id })]]

\* Variant: a running maximum (cummax), which at row i has seen only the
\* rows up to i.
max_value_running(counts, i) ==
    LET vs == { counts[j].feature_value :
                  j \in { k \in DOMAIN counts :
                            k <= i /\ counts[k].feature_id = counts[i].feature_id } }
    IN  CHOOSE v \in vs : \A w \in vs : w <= v

\* Variant: the maximum grouped by pid instead of feature_id.
max_value_patient(counts, i) ==
    LET vs == { counts[j].feature_value :
                  j \in { k \in DOMAIN counts : counts[k].pid = counts[i].pid } }
    IN  CHOOSE v \in vs : \A w \in vs : w <= v

\* groupby(['feature_id'])['feature_value'].max(), joined back on feature_id:
\* the max_value cell of row i.
max_value(counts, i) ==
    LET vs == { counts[j].feature_value :
                  j \in { k \in DOMAIN counts :
                            counts[k].feature_id = counts[i].feature_id } }
    IN  CHOOSE v \in vs : \A w \in vs : w <= v

RECURSIVE SumCounts(_, _)
SumCounts(t, I) ==
    IF I = {} THEN 0
    ELSE LET i == CHOOSE j \in I : TRUE IN t[i].feature_value + SumCounts(t, I \ {i})

\* Variant: each count divided by the sum of its feature's counts.
normalize_by_sum(counts) ==
    [i \in DOMAIN counts |->
        [pid |-> counts[i].pid, feature_id |-> counts[i].feature_id,
         feature_value |->
            Divide(counts[i].feature_value,
                   SumCounts(counts, { k \in DOMAIN counts :
                                 counts[k].feature_id = counts[i].feature_id }))]]

\* feature_value / max_value, and the drop of max_value.
normalize(counts) ==
    [i \in DOMAIN counts |->
        [pid |-> counts[i].pid, feature_id |-> counts[i].feature_id,
         feature_value |-> Divide(counts[i].feature_value, max_value(counts, i))]]

aggregate_events(fe, fm) == normalize(group_size(merge_feature_map(fe, fm)))

\* ---------------------------------------------------------------- create_features
RECURSIVE unique(_)
\* Series.unique(): the distinct values in order of first appearance.
unique(s) ==
    IF s = <<>> THEN <<>>
    ELSE LET r == unique(SubSeq(s, 1, Len(s) - 1))
             x == s[Len(s)]
         IN  IF \E i \in DOMAIN r : r[i] = x THEN r ELSE Append(r, x)

\* patient_features: the dict as its items in insertion order.
build_patient_features(agg) ==
    LET pid_all == unique([i \in DOMAIN agg |-> agg[i].pid])
    IN  [n \in DOMAIN pid_all |->
            [pid |-> pid_all[n],
             features |->
                LET rows == { i \in DOMAIN agg : agg[i].pid = pid_all[n] }
                IN  SeqOfIdx([i \in DOMAIN agg |->
                        <<agg[i].feature_id, agg[i].feature_value>>], rows)]]

build_hf(hf_t) == [p \in { r.pid : r \in hf_t } |-> 1]

\* ---------------------------------------------------------------- save_svmlight
\* Python's order on the tuples (feature_id, feature_value).
TupleLess(a, b) ==
    a[1] < b[1] \/ (a[1] = b[1] /\ FloatLess(a[2], b[2]))

RECURSIVE InsertTuple(_, _)
InsertTuple(x, s) ==
    IF s = <<>> THEN <<x>>
    ELSE IF TupleLess(x, Head(s)) THEN <<x>> \o s
    ELSE <<Head(s)>> \o InsertTuple(x, Tail(s))

RECURSIVE sorted_features_reverse(_)
\* Variant: sorted(..., reverse=True).
sorted_features_reverse(s) ==
    IF s = <<>> THEN <<>>
    ELSE LET r == sorted_features_reverse(SubSeq(s, 1, Len(s) - 1))
             x == s[Len(s)]
             lo == { i \in DOMAIN r : TupleLess(r[i], x) }
             k == IF lo = {} THEN Len(r) + 1
                  ELSE CHOOSE i \in lo : \A j \in lo : i <= j
         IN  SubSeq(r, 1, k - 1) \o <<x>> \o SubSeq(r, k, Len(r))

RECURSIVE sorted_features(_)
\* sorted(patient_features[pid]): ascending, stable.
sorted_features(s) ==
    IF s = <<>> THEN <<>>
    ELSE InsertTuple(s[Len(s)], sorted_features(SubSeq(s, 1, Len(s) - 1)))

RECURSIVE InsertKey(_, _)
InsertKey(x, s) ==
    IF s = <<>> THEN <<x>>
    ELSE IF x < Head(s) THEN <<x>> \o s
    ELSE <<Head(s)>> \o InsertKey(x, Tail(s))

RECURSIVE sorted_keys_reverse(_)
\* Variant: sorted(..., reverse=True).
sorted_keys_reverse(s) ==
    IF s = <<>> THEN <<>>
    ELSE LET r == sorted_keys_reverse(SubSeq(s, 1, Len(s) - 1))
             x == s[Len(s)]
             lo == { i \in DOMAIN r : r[i] < x }
             k == IF lo = {} THEN Len(r) + 1
                  ELSE CHOOSE i \in lo : \A j \in lo : i <= j
         IN  SubSeq(r, 1, k - 1) \o <<x>> \o SubSeq(r, k, Len(r))

RECURSIVE sorted_keys(_)
\* sorted(patient_features.keys()): ascending.
sorted_keys(s) ==
    IF s = <<>> THEN <<>>
    ELSE InsertKey(s[Len(s)], sorted_keys(SubSeq(s, 1, Len(s) - 1)))


features_of(pf, p) == (CHOOSE i \in DOMAIN pf : pf[i].pid = p)

\* Variant: the label looked up in hf.values() instead of hf.keys().
save_svmlight_values(pf, hfd) ==
    LET pids == sorted_keys([i \in DOMAIN pf |-> pf[i].pid])
    IN  [n \in DOMAIN pids |->
            [pid |-> pids[n],
             label |-> IF pids[n] \in { hfd[k] : k \in DOMAIN hfd } THEN 1 ELSE 0,
             pairs |-> sorted_features(pf[features_of(pf, pids[n])].features)]]

\* One line per key of patient_features, keys ascending. A line is kept as
\* its label and its feature:value pairs; pid records which patient the
\* line was written for (the file itself does not carry it).
save_svmlight(pf, hfd) ==
    LET pids == sorted_keys([i \in DOMAIN pf |-> pf[i].pid])
    IN  [n \in DOMAIN pids |->
            [pid |-> pids[n],
             label |-> IF pids[n] \in DOMAIN hfd THEN 1 ELSE 0,
             pairs |-> sorted_features(pf[features_of(pf, pids[n])].features)]]

\* ---------------------------------------------------------------- the run
\* The three tables read_csv returns for one data path.
Csv(events_t, hf_t, fm) == [events |-> events_t, hf |-> hf_t, feature_map |-> fm]

\* Neither output file written yet.
NoFiles == [train |-> <<>>, val |-> <<>>]

\* One execution of create_features and save_svmlight on tables just read.
Init ==
    /\ pc = "calculate_index_vid"
    /\ events \in EventTables
    /\ hf \in HfTables
    /\ feature_map_in \in FeatureMaps
    /\ feature_map \in { Bound(t) : t \in FeatureMaps } \cup {Unbound}
    /\ indx_vid = <<>>
    /\ filtered_events = <<>>
    /\ aggregated_counts = <<>>
    /\ aggregated_events = <<>>
    /\ patient_features = <<>>
    /\ hf_dict = <<>>
    /\ opened = FALSE
    /\ deliverable = <<>>
    /\ data = [train |-> Csv(events, hf, feature_map_in),
               val |-> Csv(<<>>, {}, feature_map_in)]
    /\ partition = "train"
    /\ runs = 0
    /\ files = NoFiles
    /\ first_files = NoFiles
    /\ NoCollate
    /\ NoLastVisit
    /\ NoKFold

\* Variant: the rewrite of a case patient's vid lands in events as well,
\* as if indx_vid were a view of events.
CalculateIndexVid_in_place ==
    /\ pc = "calculate_index_vid"
    /\ indx_vid' = calculate_index_vid(events, hf)
    /\ events' = [i \in DOMAIN events |->
                    IF /\ events[i].pid \in { r.pid : r \in hf }
                       /\ \A j \in DOMAIN events : j > i => events[j].pid # events[i].pid
                    THEN [events[i] EXCEPT !.vid = hf_vid(hf, events[i].pid)]
                    ELSE events[i]]
    /\ pc' = "filter_events"
    /\ UNCHANGED <<hf, feature_map_in, feature_map, session, opened, filtered_events,
                   aggregated_counts, aggregated_events, patient_features, hf_dict,
                   deliverable>>

\* Variant: the destination is opened before the tables are processed.
CalculateIndexVid_after_open ==
    /\ pc = "calculate_index_vid"
    /\ indx_vid' = calculate_index_vid(events, hf)
    /\ opened' = TRUE
    /\ pc' = "filter_events"
    /\ UNCHANGED <<inputs, session, filtered_events, aggregated_counts,
                   aggregated_events, patient_features, hf_dict, deliverable>>

CalculateIndexVid ==
    /\ pc = "calculate_index_vid"
    /\ indx_vid' = calculate_index_vid(events, hf)
    /\ pc' = "filter_events"
    /\ UNCHANGED <<inputs, session, opened, filtered_events, aggregated_counts, aggregated_events,
                   patient_features, hf_dict, deliverable>>

FilterEvents ==
    /\ pc = "filter_events"
    /\ filtered_events' = filter_events(events, indx_vid)
    /\ pc' = "aggregate_events"
    /\ UNCHANGED <<inputs, session, opened, indx_vid, aggregated_counts, aggregated_events,
                   patient_features, hf_dict, deliverable>>

\* aggregate_events reads the module-level feature_map, not its parameter
\* feature_map_df.
AggregateEvents ==
    /\ pc = "aggregate_events"
    /\ feature_map.bound
    /\ aggregated_counts' = group_size(merge_feature_map(filtered_events, feature_map.table))
    /\ aggregated_events' = aggregate_events(filtered_events, feature_map.table)
    /\ pc' = "create_features"
    /\ UNCHANGED <<inputs, session, opened, indx_vid, filtered_events, patient_features, hf_dict,
                   deliverable>>

\* The name feature_map is not bound: the lookup raises NameError and the
\* run ends.
AggregateEventsNameError ==
    /\ pc = "aggregate_events"
    /\ ~feature_map.bound
    /\ pc' = "NameError"
    /\ UNCHANGED <<inputs, session, opened, indx_vid, filtered_events, aggregated_counts,
                   aggregated_events, patient_features, hf_dict, deliverable>>

CreateFeatures ==
    /\ pc = "create_features"
    /\ patient_features' = build_patient_features(aggregated_events)
    /\ hf_dict' = build_hf(hf)
    /\ pc' = "save_svmlight"
    /\ UNCHANGED <<inputs, session, opened, indx_vid, filtered_events, aggregated_counts,
                   aggregated_events, deliverable>>

\* Variant: the destination opened for appending instead of truncated.
SaveSvmlight_append ==
    /\ pc = "save_svmlight"
    /\ opened' = TRUE
    /\ deliverable' = deliverable \o save_svmlight(patient_features, hf_dict)
    /\ pc' = "done"
    /\ UNCHANGED <<inputs, session, indx_vid, filtered_events, aggregated_counts,
                   aggregated_events, patient_features, hf_dict>>

\* open(op_file, 'wb') truncates; every line is written; close().
SaveSvmlight ==
    /\ pc = "save_svmlight"
    /\ opened' = TRUE
    /\ deliverable' = save_svmlight(patient_features, hf_dict)
    /\ pc' = "done"
    /\ UNCHANGED <<inputs, session, indx_vid, filtered_events, aggregated_counts,
                   aggregated_events, patient_features, hf_dict>>

\* save_svmlight has no handler and no temporary file: when open() raises
\* the destination is untouched, when a write raises the lines written so
\* far stay in the truncated destination.
SaveSvmlightIOError ==
    /\ pc = "save_svmlight"
    /\ \/ /\ opened' = FALSE
          /\ deliverable' = deliverable
       \/ /\ opened' = TRUE
          /\ \E k \in 0..(Len(patient_features) - 1) :
                deliverable' = SubSeq(save_svmlight(patient_features, hf_dict), 1, k)
    /\ pc' = "IOError"
    /\ UNCHANGED <<inputs, session, indx_vid, filtered_events, aggregated_counts,
                   aggregated_events, patient_features, hf_dict>>

Next ==
    \/ CalculateIndexVid
    \/ FilterEvents
    \/ AggregateEvents
    \/ AggregateEventsNameError
    \/ CreateFeatures
    \/ SaveSvmlight
    \/ SaveSvmlightIOError

Spec == Init /\ [][Next]_vars

\* ---------------------------------------------------------------- main
\* main() as a whole: the pass over TRAIN_DATA_PATH, then the pass over
\* VAL_DATA_PATH, and the cell executed again in the same kernel. During a
\* pass, deliverable is the file of the partition being processed and
\* files[partition] is what that file held before the pass.
MaxMainEvents == 2
MaxRuns == 2

MainEventIds == {"A"}
MainValues == {1}

MainEventRows == [pid : Pids, event_id : MainEventIds, vid : Vids, value : MainValues]

MainEventTables == UNION { [1..n -> MainEventRows] : n \in 0..MaxMainEvents }

MainCsvs == { Csv(e, h, FullFeatureMap) : e \in MainEventTables, h \in HfTables }

InitMain ==
    /\ pc = "calculate_index_vid"
    /\ data \in [train : MainCsvs, val : MainCsvs]
    /\ events = data.train.events
    /\ hf = data.train.hf
    /\ feature_map_in = data.train.feature_map
    /\ feature_map \in { Bound(t) : t \in FeatureMaps } \cup {Unbound}
    /\ indx_vid = <<>>
    /\ filtered_events = <<>>
    /\ aggregated_counts = <<>>
    /\ aggregated_events = <<>>
    /\ patient_features = <<>>
    /\ hf_dict = <<>>
    /\ opened = FALSE
    /\ deliverable = <<>>
    /\ partition = "train"
    /\ runs = 0
    /\ files = NoFiles
    /\ first_files = NoFiles
    /\ NoCollate
    /\ NoLastVisit
    /\ NoKFold

\* Variant: the validation rows are appended to the rows already read.
MainReadVal_concat ==
    /\ pc = "done"
    /\ partition = "train"
    /\ files' = [files EXCEPT !.train = deliverable]
    /\ events' = events \o data.val.events
    /\ hf' = data.val.hf
    /\ feature_map_in' = data.val.feature_map
    /\ indx_vid' = <<>>
    /\ filtered_events' = <<>>
    /\ aggregated_counts' = <<>>
    /\ aggregated_events' = <<>>
    /\ patient_features' = <<>>
    /\ hf_dict' = <<>>
    /\ opened' = FALSE
    /\ deliverable' = files.val
    /\ partition' = "val"
    /\ pc' = "calculate_index_vid"
    /\ UNCHANGED <<feature_map, data, runs, first_files, collate, last_visit, kfold>>

\* features_svmlight.train is closed; read_csv(VAL_DATA_PATH) rebinds
\* events_in, hf_in, feature_map_in and the second pass starts.
MainReadVal ==
    /\ pc = "done"
    /\ partition = "train"
    /\ files' = [files EXCEPT !.train = deliverable]
    /\ events' = data.val.events
    /\ hf' = data.val.hf
    /\ feature_map_in' = data.val.feature_map
    /\ indx_vid' = <<>>
    /\ filtered_events' = <<>>
    /\ aggregated_counts' = <<>>
    /\ aggregated_events' = <<>>
    /\ patient_features' = <<>>
    /\ hf_dict' = <<>>
    /\ opened' = FALSE
    /\ deliverable' = files.val
    /\ partition' = "val"
    /\ pc' = "calculate_index_vid"
    /\ UNCHANGED <<feature_map, data, runs, first_files, collate, last_visit, kfold>>

\* features_svmlight.val is closed and main() returns.
MainReturn ==
    /\ pc = "done"
    /\ partition = "val"
    /\ files' = [files EXCEPT !.val = deliverable]
    /\ runs' = runs + 1
    /\ first_files' = IF runs = 0 THEN files' ELSE first_files
    /\ pc' = "returned"
    /\ UNCHANGED <<inputs, data, partition, collate, last_visit, kfold, opened, deliverable, indx_vid,
                   filtered_events, aggregated_counts, aggregated_events,
                   patient_features, hf_dict>>

\* The cell is executed again: read_csv(TRAIN_DATA_PATH) on the same files.
MainAgain ==
    /\ pc = "returned"
    /\ runs < MaxRuns
    /\ events' = data.train.events
    /\ hf' = data.train.hf
    /\ feature_map_in' = data.train.feature_map
    /\ indx_vid' = <<>>
    /\ filtered_events' = <<>>
    /\ aggregated_counts' = <<>>
    /\ aggregated_events' = <<>>
    /\ patient_features' = <<>>
    /\ hf_dict' = <<>>
    /\ opened' = FALSE
    /\ deliverable' = files.train
    /\ partition' = "train"
    /\ pc' = "calculate_index_vid"
    /\ UNCHANGED <<feature_map, data, runs, files, first_files, collate, last_visit, kfold>>

NextMain ==
    \/ CalculateIndexVid
    \/ FilterEvents
    \/ AggregateEvents
    \/ AggregateEventsNameError
    \/ CreateFeatures
    \/ SaveSvmlight
    \/ SaveSvmlightIOError
    \/ MainReadVal
    \/ MainReturn
    \/ MainAgain

SpecMain == InitMain /\ [][NextMain]_vars

\* ---------------------------------------------------------------- the file as text
\* A text is a sequence of one-character strings. A feature value is a
\* binary float: here a multiple of 1/2^ValueBits in (0, 1], kept as a
\* reduced fraction.
ValueBits == 2
MaxFormatFeatures == 2

RECURSIVE Pow(_, _)
Pow(b, e) == IF e = 0 THEN 1 ELSE b * Pow(b, e - 1)

Floats == { Divide(k, Pow(2, ValueBits)) : k \in 1..Pow(2, ValueBits) }

DigitChars == <<"0", "1", "2", "3", "4", "5", "6", "7", "8", "9">>

RECURSIVE Decimal(_)
\* "%d" of a natural number.
Decimal(k) ==
    IF k < 10 THEN <<DigitChars[k + 1]>>
    ELSE Decimal(k \div 10) \o <<DigitChars[(k % 10) + 1]>>

RECURSIVE Padded(_, _)
\* k in exactly w digits.
Padded(k, w) ==
    IF w = 0 THEN <<>> ELSE Padded(k \div 10, w - 1) \o <<DigitChars[(k % 10) + 1]>>

\* The value as a decimal with all its digits: a multiple of 1/2^ValueBits
\* has exactly ValueBits decimal places.
render_value(v) ==
    LET scaled == v[1] * (Pow(2, ValueBits) \div v[2]) * Pow(5, ValueBits)
        unit == Pow(10, ValueBits)
    IN  Decimal(scaled \div unit) \o <<".">> \o Padded(scaled % unit, ValueBits)

RECURSIVE bag_to_svmlight(_)
\* utils.bag_to_svmlight: the pairs as feature_id:value joined by spaces.
bag_to_svmlight(features) ==
    IF features = <<>> THEN <<>>
    ELSE LET one == Decimal(features[1][1]) \o <<":">> \o render_value(features[1][2])
         IN  IF Len(features) = 1 THEN one
             ELSE one \o <<" ">> \o bag_to_svmlight(Tail(features))

\* Variant: the label written right against the first pair.
write_line_unspaced(label, feature_value) ==
    Decimal(label) \o feature_value \o <<" ", "\n">>

\* bytes(f"{label} {feature_value} \n", 'utf-8')
write_line(label, feature_value) ==
    Decimal(label) \o <<" ">> \o feature_value \o <<" ", "\n">>

\* The text of the file whose lines are the records lines.
file_text(lines) ==
    Flatten([n \in DOMAIN lines |->
                write_line(lines[n].label, bag_to_svmlight(lines[n].pairs))])

RECURSIVE Split(_, _)
\* The non-empty pieces of text s between occurrences of the character sep.
Split(s, sep) ==
    IF s = <<>> THEN <<>>
    ELSE LET at == { i \in DOMAIN s : s[i] = sep }
         IN  IF at = {} THEN <<s>>
             ELSE LET i == CHOOSE a \in at : \A b \in at : a <= b
                      rest == Split(SubSeq(s, i + 1, Len(s)), sep)
                  IN  IF i = 1 THEN rest ELSE <<SubSeq(s, 1, i - 1)>> \o rest

IsNumber(cs) ==
    /\ cs # <<>>
    /\ \A i \in DOMAIN cs : \E k \in DOMAIN DigitChars : DigitChars[k] = cs[i]

RECURSIVE Number(_)
Number(cs) ==
    IF cs = <<>> THEN 0
    ELSE 10 * Number(SubSeq(cs, 1, Len(cs) - 1))
           + (CHOOSE k \in 0..9 : DigitChars[k + 1] = cs[Len(cs)])

\* A decimal int.frac read as the nearest float.
parse_value(cs) ==
    LET parts == Split(cs, ".")
        den == Pow(10, Len(parts[2]))
        num == Number(parts[1]) * den + Number(parts[2])
        k == (2 * num * Pow(2, ValueBits) + den) \div (2 * den)
    IN  Divide(k, Pow(2, ValueBits))

IsValue(cs) ==
    LET parts == Split(cs, ".")
    IN  Len(parts) = 2 /\ IsNumber(parts[1]) /\ IsNumber(parts[2])

IsPair(cs) ==
    LET parts == Split(cs, ":")
    IN  Len(parts) = 2 /\ IsNumber(parts[1]) /\ IsValue(parts[2])

Malformed == [label |-> NaN, pairs |-> <<>>]

\* One line of the file read back: the label and the pairs in the order
\* of the line.
parse_line(cs) ==
    LET tokens == Split(cs, " ")
    IN  IF tokens = <<>> \/ ~IsNumber(tokens[1])
           \/ \E j \in 2..Len(tokens) : ~IsPair(tokens[j])
        THEN Malformed
        ELSE [label |-> Number(tokens[1]),
              pairs |-> [j \in 1..(Len(tokens) - 1) |->
                            LET parts == Split(tokens[j + 1], ":")
                            IN  <<Number(parts[1]), parse_value(parts[2])>>]]

\* utils.get_data_from_svmlight, as the rows it reads: one per line.
get_data_from_svmlight(text) ==
    LET ls == Split(text, "\n")
    IN  [n \in DOMAIN ls |-> parse_line(ls[n])]

\* The dicts save_svmlight may be handed: per patient a non-empty list of
\* (feature_id, value) with distinct feature ids, in any order.
FormatFeatureIds == {1, 2, 12}

FeatureLists ==
    { fs \in UNION { [1..n -> FormatFeatureIds \X Floats] : n \in 1..MaxFormatFeatures } :
        \A i, j \in DOMAIN fs : i # j => fs[i][1] # fs[j][1] }

PatientFeatures ==
    { SetToSeq({ [pid |-> p, features |-> f[p]] : p \in S }) :
        S \in SUBSET Pids \ {{}} , f \in [Pids -> FeatureLists] }

InitFormat ==
    /\ pc = "save_svmlight"
    /\ patient_features \in PatientFeatures
    /\ hf_dict \in { [p \in S |-> 1] : S \in SUBSET Pids }
    /\ events = <<>>
    /\ hf = {}
    /\ feature_map_in = FullFeatureMap
    /\ feature_map = Bound(FullFeatureMap)
    /\ indx_vid = <<>>
    /\ filtered_events = <<>>
    /\ aggregated_counts = <<>>
    /\ aggregated_events = <<>>
    /\ opened = FALSE
    /\ deliverable = <<>>
    /\ data = [train |-> Csv(<<>>, {}, FullFeatureMap), val |-> Csv(<<>>, {}, FullFeatureMap)]
    /\ partition = "train"
    /\ runs = 0
    /\ files = NoFiles
    /\ first_files = NoFiles
    /\ NoCollate
    /\ NoLastVisit
    /\ NoKFold

NextFormat ==
    \/ SaveSvmlight
    \/ SaveSvmlightIOError

SpecFormat == InitFormat /\ [][NextFormat]_vars

\* ---------------------------------------------------------------- filter_events alone
\* filter_events called with any table of index vids, not only the one
\* calculate_index_vid makes of the same events: at most one row per pid,
\* some pids of events possibly without a row.
IndexTables ==
    { t \in UNION { [1..n -> [pid : Pids, indx_vid : Vids]] : n \in 0..MaxPid } :
        \A i, j \in DOMAIN t : i # j => t[i].pid # t[j].pid }

InitFilter ==
    /\ pc = "filter_events"
    /\ events \in EventTables
    /\ indx_vid \in IndexTables
    /\ hf = {}
    /\ feature_map_in = FullFeatureMap
    /\ feature_map = Bound(FullFeatureMap)
    /\ filtered_events = <<>>
    /\ aggregated_counts = <<>>
    /\ aggregated_events = <<>>
    /\ patient_features = <<>>
    /\ hf_dict = <<>>
    /\ opened = FALSE
    /\ deliverable = <<>>
    /\ data = [train |-> Csv(events, hf, feature_map_in),
               val |-> Csv(<<>>, {}, feature_map_in)]
    /\ partition = "train"
    /\ runs = 0
    /\ files = NoFiles
    /\ first_files = NoFiles
    /\ NoCollate
    /\ NoLastVisit
    /\ NoKFold

NextFilter == FilterEvents

SpecFilter == InitFilter /\ [][NextFilter]_vars

\* ---------------------------------------------------------------- collate_fn
\* The pipeline has not run and nothing of it runs.
NoPipeline ==
    /\ events = <<>>
    /\ hf = {}
    /\ feature_map_in = FullFeatureMap
    /\ feature_map = Unbound
    /\ indx_vid = <<>>
    /\ filtered_events = <<>>
    /\ aggregated_counts = <<>>
    /\ aggregated_events = <<>>
    /\ patient_features = <<>>
    /\ hf_dict = <<>>
    /\ opened = FALSE
    /\ deliverable = <<>>
    /\ data = [train |-> Csv(<<>>, {}, FullFeatureMap), val |-> Csv(<<>>, {}, FullFeatureMap)]
    /\ partition = "train"
    /\ runs = 0
    /\ files = NoFiles
    /\ first_files = NoFiles

pipeline == <<pc, events, hf, feature_map_in, feature_map, indx_vid,
              filtered_events, aggregated_counts, aggregated_events,
              patient_features, hf_dict, opened, deliverable,
              data, partition, runs, files, first_files>>

MaxPatients == 2
MaxVisits == 2
MaxCodes == 2
MaxCode == 1

\* A visit is a non-empty list of diagnosis codes (0 is a code), a patient
\* a non-empty list of visits, a sample a patient with its label.
VisitLists == UNION { [1..c -> 0..MaxCode] : c \in 1..MaxCodes }
PatientLists == UNION { [1..v -> VisitLists] : v \in 1..MaxVisits }
SampleBatches == UNION { [1..p -> PatientLists \X {0, 1}] : p \in 1..MaxPatients }

\* Python's max of a non-empty list.
MaxOf(s) == CHOOSE v \in { s[a] : a \in DOMAIN s } : \A b \in DOMAIN s : s[b] <= v

\* torch.zeros(shape): tensors are functions on 0-based indices.
zeros(shape, zero) ==
    [a \in 0..(shape[1] - 1) |-> [b \in 0..(shape[2] - 1) |-> [c \in 0..(shape[3] - 1) |-> zero]]]

\* visit + [0] * num_pad_ij
codes_padded(visit, max_num_codes) ==
    [c \in 0..(max_num_codes - 1) |-> IF c < Len(visit) THEN visit[c + 1] ELSE 0]

\* Variant: the mask taken from the padded codes, code != 0.
masks_padded_nonzero(visit, max_num_codes) ==
    [c \in 0..(max_num_codes - 1) |-> c < Len(visit) /\ visit[c + 1] # 0]

\* [1] * num_codes_ij + [0] * num_pad_ij, as bool
masks_padded(visit, max_num_codes) ==
    [c \in 0..(max_num_codes - 1) |-> c < Len(visit)]

\* Variant: the visit axis flipped as a whole, padding rows included.
rev_j_visit_padded(num_visits_i, max_num_visits, j_visit) ==
    max_num_visits - 1 - j_visit

\* rev_j_visit = len(sequences[i_patient]) - 1 - j_visit
rev_j_visit(num_visits_i, max_num_visits, j_visit) ==
    num_visits_i - 1 - j_visit

\* The pairs (i_patient, j_visit) in the order of the two nested loops.
visit_positions(seqs) ==
    Flatten([a \in DOMAIN seqs |-> [b \in DOMAIN seqs[a] |-> <<a - 1, b - 1>>]])

RECURSIVE collate_loop(_, _, _, _, _)
\* The body of the nested loops applied to the positions todo, in order.
collate_loop(seqs, todo, max_num_visits, max_num_codes, t) ==
    IF todo = <<>> THEN t
    ELSE LET a == Head(todo)[1]
             b == Head(todo)[2]
             visit == seqs[a + 1][b + 1]
             cp == codes_padded(visit, max_num_codes)
             mp == masks_padded(visit, max_num_codes)
             rb == rev_j_visit(Len(seqs[a + 1]), max_num_visits, b)
         IN  collate_loop(seqs, Tail(todo), max_num_visits, max_num_codes,
                 [x |-> [t.x EXCEPT ![a][b] = cp],
                  masks |-> [t.masks EXCEPT ![a][b] = mp],
                  rev_x |-> [t.rev_x EXCEPT ![a][rb] = cp],
                  rev_masks |-> [t.rev_masks EXCEPT ![a][rb] = mp]])

collate_fn(seqs) ==
    LET num_patients == Len(seqs)
        num_visits == [a \in DOMAIN seqs |-> Len(seqs[a])]
        num_codes == Flatten([a \in DOMAIN seqs |-> [b \in DOMAIN seqs[a] |-> Len(seqs[a][b])]])
        max_num_visits == MaxOf(num_visits)
        max_num_codes == MaxOf(num_codes)
        shape == <<num_patients, max_num_visits, max_num_codes>>
    IN  collate_loop(seqs, visit_positions(seqs), max_num_visits, max_num_codes,
            [x |-> zeros(shape, 0), masks |-> zeros(shape, FALSE),
             rev_x |-> zeros(shape, 0), rev_masks |-> zeros(shape, FALSE)])

\* sequences, labels = zip(*data) for a list of samples handed over by the
\* DataLoader.
InitCollate ==
    /\ pc = "collate_fn"
    /\ \E batch \in SampleBatches :
         /\ sequences = [a \in DOMAIN batch |-> batch[a][1]]
         /\ labels = [a \in DOMAIN batch |-> batch[a][2]]
    /\ batch_x = <<>>
    /\ masks = <<>>
    /\ rev_x = <<>>
    /\ rev_masks = <<>>
    /\ batch_y = <<>>
    /\ NoPipeline
    /\ NoLastVisit
    /\ NoKFold

CollateFn ==
    /\ pc = "collate_fn"
    /\ batch_y' = labels
    /\ LET t == collate_fn(sequences)
       IN  /\ batch_x' = t.x
           /\ masks' = t.masks
           /\ rev_x' = t.rev_x
           /\ rev_masks' = t.rev_masks
    /\ pc' = "collated"
    /\ UNCHANGED <<sequences, labels, last_visit, kfold, inputs, indx_vid,
                   filtered_events, aggregated_counts, aggregated_events,
                   patient_features, hf_dict, opened, deliverable,
                   data, partition, runs, files, first_files>>

NextCollate == CollateFn

SpecCollate == InitCollate /\ [][NextCollate]_vars

\* ---------------------------------------------------------------- get_f1_kfold
\* The index lists of get_f1_kfold; fitting and scoring the classifier on
\* them changes none of the indices and is left out. fold_i counts the
\* iterations done, so the next iteration runs with i = fold_i.
MaxN == 12
MaxK == 5

\* list(range(a, b))
Range(a, b) == [t \in 1..(b - a) |-> a + t - 1]

Min(a, b) == IF a < b THEN a ELSE b

InitKFold ==
    /\ pc = "get_f1_kfold"
    /\ fold_k \in 1..MaxK
    /\ fold_n \in fold_k..MaxN
    /\ fold_i = 0
    /\ test_idx = <<>>
    /\ train_idx = <<>>
    /\ folds = <<>>
    /\ NoPipeline
    /\ NoCollate
    /\ NoLastVisit

KFoldIteration ==
    /\ pc = "get_f1_kfold"
    /\ fold_i < fold_k
    /\ LET size == fold_n \div fold_k
           stop == Min((fold_i + 1) * size, fold_n)
           test == Range(fold_i * size, stop)
           train == Range(0, fold_i * size) \o Range(stop, fold_n)
       IN  /\ test_idx' = test
           /\ train_idx' = train
           /\ folds' = Append(folds, [test |-> test, train |-> train])
    /\ fold_i' = fold_i + 1
    /\ UNCHANGED <<pc, fold_n, fold_k, collate, last_visit, inputs, indx_vid,
                   filtered_events, aggregated_counts, aggregated_events,
                   patient_features, hf_dict, opened, deliverable,
                   data, partition, runs, files, first_files>>

KFoldReturn ==
    /\ pc = "get_f1_kfold"
    /\ fold_i = fold_k
    /\ pc' = "kfold_done"
    /\ UNCHANGED <<kfold, collate, last_visit, inputs, indx_vid,
                   filtered_events, aggregated_counts, aggregated_events,
                   patient_features, hf_dict, opened, deliverable,
                   data, partition, runs, files, first_files>>

NextKFold ==
    \/ KFoldIteration
    \/ KFoldReturn

SpecKFold == InitKFold /\ [][NextKFold]_vars

\* ---------------------------------------------------------------- get_last_visit
\* masks.sum(dim=masks.ndim-1).bool(): the visit has an unmasked code.
masks_bool(m) == [a \in DOMAIN m |-> [b \in DOMAIN m[a] |-> \E c \in DOMAIN m[a][b] : m[a][b][c]]]

\* masks_bool.sum(dim=masks_bool.ndim-1) - 1
masks_last_visit(m) ==
    [a \in DOMAIN m |-> Cardinality({ b \in DOMAIN m[a] : masks_bool(m)[a][b] }) - 1]

\* Indexing along an axis of the given length; a negative index counts
\* from the end.
At(row, idx) == IF idx < 0 THEN row[idx + Cardinality(DOMAIN row)] ELSE row[idx]

\* Variant: the state of the last position of the visit axis, padding or
\* not (hidden_states[:, -1]).
get_last_visit_final(hs, m) ==
    [a \in DOMAIN hs |-> At(hs[a], -1)]

\* hidden_states[np.arange(len(hidden_states)), masks_last_visit]
get_last_visit(hs, m) ==
    [a \in DOMAIN hs |-> At(hs[a], masks_last_visit(m)[a])]

\* Any boolean masks of shape (MaxPatients, MaxVisits, MaxCodes), and
\* hidden states that tell their patient and visit.
MaskTensors ==
    [0..(MaxPatients - 1) -> [0..(MaxVisits - 1) -> [0..(MaxCodes - 1) -> BOOLEAN]]]

InitLastVisit ==
    /\ pc = "get_last_visit"
    /\ masks \in MaskTensors
    /\ hidden_states = [a \in 0..(MaxPatients - 1) |-> [b \in 0..(MaxVisits - 1) |-> <<a, b>>]]
    /\ last_hidden_states = <<>>
    /\ sequences = <<>>
    /\ labels = <<>>
    /\ batch_x = <<>>
    /\ rev_x = <<>>
    /\ rev_masks = <<>>
    /\ batch_y = <<>>
    /\ NoPipeline
    /\ NoKFold

GetLastVisit ==
    /\ pc = "get_last_visit"
    /\ last_hidden_states' = get_last_visit(hidden_states, masks)
    /\ pc' = "last_visit_done"
    /\ UNCHANGED <<hidden_states, collate, kfold, inputs, indx_vid,
                   filtered_events, aggregated_counts, aggregated_events,
                   patient_features, hf_dict, opened, deliverable,
                   data, partition, runs, files, first_files>>

NextLastVisit == GetLastVisit

SpecLastVisit == InitLastVisit /\ [][NextLastVisit]_vars

\* ---------------------------------------------------------------- properties
EventPids == { events[i].pid : i \in DOMAIN events }
HfPids == { r.pid : r \in hf }

RowsOf(p) == { i \in DOMAIN events : events[i].pid = p }

MaxVidOf(p) ==
    LET vs == { events[i].vid : i \in RowsOf(p) }
    IN  CHOOSE v \in vs : \A w \in vs : w <= v

IndexRowsOf(p) == { i \in DOMAIN indx_vid : indx_vid[i].pid = p }

IndexVisitOf(p) == indx_vid[CHOOSE i \in IndexRowsOf(p) : TRUE].indx_vid

IndexDone == pc # "calculate_index_vid"
FilterDone == pc \notin {"calculate_index_vid", "filter_events"}
AggregateDone == pc \in {"create_features", "save_svmlight", "done"}

\* C1: every control patient (in Events, absent from CaseLabel) gets
\* index_visit = the maximum vid over all of the patient's event rows,
\* whatever the order of the rows. The code takes the vid of the patient's
\* last row instead, so this fails when the rows are not in vid order.
C1_ControlIndexIsMaxVid ==
    IndexDone =>
        \A p \in EventPids \ HfPids :
            /\ IndexRowsOf(p) # {}
            /\ \A i \in IndexRowsOf(p) : indx_vid[i].indx_vid = MaxVidOf(p)

\* C2: every case patient (in Events and in CaseLabel) gets index_visit =
\* the vid CaseLabel records for the patient, whatever the vids of the
\* patient's own events.
C2_CaseIndexIsHfVid ==
    IndexDone =>
        \A p \in EventPids \cap HfPids :
            /\ IndexRowsOf(p) # {}
            /\ \A i \in IndexRowsOf(p) :
                 \A r \in hf : r.pid = p => indx_vid[i].indx_vid = r.vid

\* A case patient none of whose events is at the CaseLabel vid.
C2_Witness ==
    /\ pc = "filter_events"
    /\ \E r \in hf :
         /\ r.pid \in EventPids
         /\ \A i \in RowsOf(r.pid) : events[i].vid # r.vid

\* C3: filter_events keeps exactly the event rows with vid strictly below
\* the index_visit of the row's patient, each with its multiplicity, and no
\* row with vid at or above it.
C3_FilterKeepsStrictlyBefore ==
    FilterDone =>
        \A p \in Pids, e \in EventIds, v \in Values :
            Cardinality({ i \in DOMAIN filtered_events :
                            filtered_events[i] = [pid |-> p, event_id |-> e, value |-> v] })
          = Cardinality({ i \in RowsOf(p) :
                            /\ events[i].event_id = e
                            /\ events[i].value = v
                            /\ events[i].vid < IndexVisitOf(p) })

\* A row kept twice, and a row at the index visit itself dropped.
C3_Witness ==
    /\ pc = "aggregate_events"
    /\ \E i, j \in DOMAIN filtered_events :
         i # j /\ filtered_events[i] = filtered_events[j]
    /\ \E i \in DOMAIN events : events[i].vid = IndexVisitOf(events[i].pid)

\* C4: calculate_index_vid yields exactly one row for each distinct pid of
\* Events, and no row for a pid that is absent from Events.
C4_OneIndexRowPerPatient ==
    IndexDone =>
        \A p \in Pids :
            Cardinality(IndexRowsOf(p)) = IF p \in EventPids THEN 1 ELSE 0

\* A patient with rows at two different visits, and a CaseLabel patient
\* with no event.
C4_Witness ==
    /\ pc = "filter_events"
    /\ \E i, j \in DOMAIN events :
         events[i].pid = events[j].pid /\ events[i].vid # events[j].vid
    /\ HfPids \ EventPids # {}

\* The feature id that aggregate_events gives an event id: the idx of the
\* event id's row in the table the merge joins with.
MapsTo(e, f) == \E r \in feature_map.table : r.event_id = e /\ r.idx = f
FeatureIds == { r.idx : r \in feature_map.table }

FilteredCount(p, f) ==
    Cardinality({ i \in DOMAIN filtered_events :
                    filtered_events[i].pid = p /\ MapsTo(filtered_events[i].event_id, f) })

CountRowsOf(p, f) ==
    { i \in DOMAIN aggregated_counts :
        aggregated_counts[i].pid = p /\ aggregated_counts[i].feature_id = f }

\* C5: the raw count of a (patient, feature_id) pair is the number of
\* filtered event rows of the patient whose event code maps to the feature
\* id; the value field of the rows plays no part.
C5_RawCountIsRowCount ==
    AggregateDone =>
        \A p \in Pids, f \in FeatureIds :
            IF FilteredCount(p, f) = 0
            THEN CountRowsOf(p, f) = {}
            ELSE /\ Cardinality(CountRowsOf(p, f)) = 1
                 /\ \A i \in CountRowsOf(p, f) :
                      aggregated_counts[i].feature_value = FilteredCount(p, f)

\* Two counted rows of one patient and event id whose value fields differ.
C5_Witness ==
    /\ pc = "create_features"
    /\ \E i, j \in DOMAIN filtered_events :
         /\ filtered_events[i].pid = filtered_events[j].pid
         /\ filtered_events[i].event_id = filtered_events[j].event_id
         /\ filtered_events[i].value # filtered_events[j].value
         /\ \E f \in FeatureIds : MapsTo(filtered_events[i].event_id, f)

FeatureMax(f) ==
    LET vs == { aggregated_counts[i].feature_value :
                  i \in { j \in DOMAIN aggregated_counts :
                            aggregated_counts[j].feature_id = f } }
    IN  CHOOSE v \in vs : \A w \in vs : w <= v

\* C6: every output row's value is the pair's raw count divided by the
\* maximum raw count of its feature_id over all patients that have the
\* feature; the divisor is never zero.
C6_ValueIsCountOverFeatureMax ==
    AggregateDone =>
        /\ Len(aggregated_events) = Len(aggregated_counts)
        /\ \A i \in DOMAIN aggregated_events :
             LET a == aggregated_events[i]
                 c == aggregated_counts[i]
             IN  /\ a.pid = c.pid
                 /\ a.feature_id = c.feature_id
                 /\ FeatureMax(c.feature_id) > 0
                 /\ a.feature_value[2] > 0
                 /\ a.feature_value[1] * FeatureMax(c.feature_id)
                      = a.feature_value[2] * c.feature_value

\* A patient whose largest count is its count of a feature of which another
\* patient has more: its value is below 1.
C6_Witness ==
    /\ pc = "create_features"
    /\ \E i, k \in DOMAIN aggregated_counts :
         /\ aggregated_counts[k].pid # aggregated_counts[i].pid
         /\ aggregated_counts[k].feature_id = aggregated_counts[i].feature_id
         /\ aggregated_counts[k].feature_value > aggregated_counts[i].feature_value
         /\ \A j \in DOMAIN aggregated_counts :
              aggregated_counts[j].pid = aggregated_counts[i].pid =>
                aggregated_counts[j].feature_value <= aggregated_counts[i].feature_value
         /\ aggregated_events[i].feature_value # <<1, 1>>

\* C7: every emitted value v has 0 < v <= 1, and every feature_id of the
\* output has a patient with value exactly 1.
C7_ValuesInUnitInterval ==
    AggregateDone =>
        /\ \A i \in DOMAIN aggregated_events :
             LET v == aggregated_events[i].feature_value
             IN  0 < v[1] /\ 0 < v[2] /\ v[1] <= v[2]
        /\ \A i \in DOMAIN aggregated_events :
             \E j \in DOMAIN aggregated_events :
                /\ aggregated_events[j].feature_id = aggregated_events[i].feature_id
                /\ aggregated_events[j].feature_value = <<1, 1>>

\* One feature held by two patients, one at 1 and the other at 1/2.
C7_Witness ==
    /\ pc = "create_features"
    /\ \E i, j \in DOMAIN aggregated_events :
         /\ aggregated_events[i].feature_id = aggregated_events[j].feature_id
         /\ aggregated_events[i].feature_value = <<1, 1>>
         /\ aggregated_events[j].feature_value = <<1, 2>>

AggregatedPids == { aggregated_events[i].pid : i \in DOMAIN aggregated_events }

\* C8: save_svmlight writes exactly one line for each patient with at least
\* one aggregated feature, in strictly ascending patient id order.
C8_OneLinePerPatientAscending ==
    pc = "done" =>
        /\ { deliverable[n].pid : n \in DOMAIN deliverable } = AggregatedPids
        /\ \A n \in DOMAIN deliverable :
             n < Len(deliverable) => deliverable[n].pid < deliverable[n + 1].pid

\* Two lines written, for patients whose events came in descending
\* patient id order.
C8_Witness ==
    /\ pc = "done"
    /\ Len(deliverable) > 1
    /\ \E i, j \in DOMAIN filtered_events :
         i < j /\ filtered_events[i].pid > filtered_events[j].pid

\* C9: the label of a patient's line is 1 exactly when the patient id
\* occurs in CaseLabel, and 0 otherwise.
C9_LabelIsCaseMembership ==
    pc = "done" =>
        \A n \in DOMAIN deliverable :
            deliverable[n].label = IF deliverable[n].pid \in HfPids THEN 1 ELSE 0

\* A line labelled 1 and a line labelled 0 in one file.
C9_Witness ==
    /\ pc = "done"
    /\ \E n, m \in DOMAIN deliverable :
         deliverable[n].label = 1 /\ deliverable[m].label = 0

\* C10: within every output line the feature ids strictly increase, so no
\* feature id occurs twice on a line.
C10_FeatureIdsStrictlyIncrease ==
    pc = "done" =>
        \A n \in DOMAIN deliverable :
            LET ps == deliverable[n].pairs
            IN  \A k \in DOMAIN ps : k < Len(ps) => ps[k][1] < ps[k + 1][1]

\* A line with two features whose events came in descending feature id
\* order.
C10_Witness ==
    /\ pc = "done"
    /\ \E n \in DOMAIN deliverable : Len(deliverable[n].pairs) > 1
    /\ \E i, j \in DOMAIN filtered_events :
         /\ i < j
         /\ filtered_events[i].pid = filtered_events[j].pid
         /\ \E f, g \in FeatureIds :
              /\ MapsTo(filtered_events[i].event_id, f)
              /\ MapsTo(filtered_events[j].event_id, g)
              /\ f > g

\* The event rows of patient p inside the observation window.
WindowRows(p) == { i \in RowsOf(p) : events[i].vid < IndexVisitOf(p) }

LinePids == { deliverable[n].pid : n \in DOMAIN deliverable }

\* C11: a patient with no event below its index_visit, case or control,
\* has no output line; the empty window stops nothing (the only stop before
\* the write is the unbound name, and the patients that have features get
\* their lines), so the lines are at most as many as the distinct patients
\* of Events.
C11_EmptyWindowNoLine ==
    /\ pc = "done" =>
         /\ \A p \in EventPids : WindowRows(p) = {} => p \notin LinePids
         /\ \A p \in EventPids :
              (\E i \in WindowRows(p), f \in FeatureIds : MapsTo(events[i].event_id, f))
                => p \in LinePids
         /\ Len(deliverable) <= Cardinality(EventPids)
    /\ pc = "NameError" => ~feature_map.bound

\* A control and a case patient, one with an empty window and no line, the
\* other with a line.
C11_Witness ==
    /\ pc = "done"
    /\ \E p \in EventPids \ HfPids, q \in EventPids \cap HfPids :
         \/ WindowRows(p) = {} /\ p \notin LinePids /\ q \in LinePids
         \/ WindowRows(q) = {} /\ q \notin LinePids /\ p \in LinePids

\* C12: when a filtered event has an event code with no entry in
\* FeatureMap the run aborts with an error instead of aggregating without
\* the event. Stated for runs in which the table aggregate_events merges
\* with is the FeatureMap passed in. The code has no such check: the merge
\* leaves NaN and the groupby drops the row.
C12_UnknownCodeAborts ==
    ( /\ FilterDone
      /\ feature_map = Bound(feature_map_in)
      /\ \E i \in DOMAIN filtered_events :
           \A r \in feature_map_in : r.event_id # filtered_events[i].event_id )
    => pc \notin {"create_features", "save_svmlight", "done", "IOError"}

\* C13: when CaseLabel holds a patient id with no row in Events the run
\* aborts with an error. The code ignores the entry and runs to the end.
C13_MissingPatientAborts ==
    HfPids \ EventPids # {} => pc # "done"

\* C14: the output file is neither opened nor written before index-visit
\* resolution, filtering and aggregation have finished, so a failure in
\* those stages leaves the destination as it was.
C14_NoOutputBeforeSave ==
    pc \in {"calculate_index_vid", "filter_events", "aggregate_events",
            "create_features", "save_svmlight", "NameError"}
      => ~opened /\ deliverable = files[partition]

\* A run that fails in aggregation although events were in the window.
C14_Witness ==
    /\ pc = "NameError"
    /\ filtered_events # <<>>

\* C15: after save_svmlight returns or fails the destination holds all the
\* lines or none, never a strict non-empty prefix. The code writes line by
\* line into the truncated destination, so a failing write leaves a prefix.
C15_AllOrNothing ==
    pc \in {"done", "IOError"} =>
        \/ deliverable = <<>>
        \/ deliverable = save_svmlight(patient_features, hf_dict)

\* C18: no pair of an output line has value 0, and a feature with no
\* occurrence in the patient's observation window is absent from the line.
C18_NoZeroValuedPair ==
    pc = "done" =>
        \A n \in DOMAIN deliverable :
            \A k \in DOMAIN deliverable[n].pairs :
                LET pr == deliverable[n].pairs[k]
                IN  /\ pr[2][1] > 0
                    /\ \E i \in WindowRows(deliverable[n].pid) :
                         MapsTo(events[i].event_id, pr[1])

\* Two lines of which one lacks a feature that the other has.
C18_Witness ==
    /\ pc = "done"
    /\ \E n, m \in DOMAIN deliverable :
         \E k \in DOMAIN deliverable[n].pairs :
            \A j \in DOMAIN deliverable[m].pairs :
                deliverable[m].pairs[j][1] # deliverable[n].pairs[k][1]

\* C19: for a control patient no event at the last visit, or at any vid at
\* or above the index visit, contributes: each raw count of the patient
\* counts only event rows at visits strictly before the patient's maximum
\* vid (and strictly before the index visit).
C19_ControlCountsOnlyEarlierVisits ==
    AggregateDone =>
        \A p \in EventPids \ HfPids :
            /\ IndexVisitOf(p) <= MaxVidOf(p)
            /\ \A f \in FeatureIds :
                 \A i \in CountRowsOf(p, f) :
                    aggregated_counts[i].feature_value
                      = Cardinality({ j \in RowsOf(p) :
                                        /\ MapsTo(events[j].event_id, f)
                                        /\ events[j].vid < IndexVisitOf(p)
                                        /\ events[j].vid < MaxVidOf(p) })

\* A control patient with a counted event at visit 0 and an event of the
\* same code at its last visit that is not counted.
C19_Witness ==
    /\ pc = "done"
    /\ \E p \in EventPids \ HfPids :
         /\ p \in LinePids
         /\ \E i \in WindowRows(p), j \in RowsOf(p) :
              /\ events[j].vid = MaxVidOf(p)
              /\ events[j].event_id = events[i].event_id

\* C16: with the csv files fixed, executing the pipeline a second time
\* leaves both output files exactly as the first execution left them: the
\* same lines in the same order with the same labels and feature pairs.
C16_RerunIdenticalOutput ==
    (pc = "returned" /\ runs = MaxRuns) => files = first_files

\* A second execution has returned and both files hold lines, one of them
\* two lines.
C16_Witness ==
    /\ pc = "returned"
    /\ runs = MaxRuns
    /\ Len(files.train) = 2
    /\ Len(files.val) > 0

\* The index vid calculate_index_vid gives patient p in the tables d.
IndexIn(d, p) ==
    LET iv == calculate_index_vid(d.events, d.hf)
    IN  iv[CHOOSE i \in DOMAIN iv : iv[i].pid = p].indx_vid

PidsIn(d) == { d.events[i].pid : i \in DOMAIN d.events }

\* Event rows of patient p in the tables d, inside p's window, of feature f.
CountIn(d, p, f) ==
    Cardinality({ i \in DOMAIN d.events :
                    /\ d.events[i].pid = p
                    /\ d.events[i].vid < IndexIn(d, p)
                    /\ MapsTo(d.events[i].event_id, f) })

MaxIn(d, f) ==
    CHOOSE m \in 0..Len(d.events) :
        /\ \A p \in PidsIn(d) : CountIn(d, p, f) <= m
        /\ m > 0 => \E p \in PidsIn(d) : CountIn(d, p, f) = m

\* The file holds what the tables d alone determine: a line for each
\* patient of d with a counted event, each value the patient's count over
\* the maximum count of that feature among the patients of d.
FileOf(d, out) ==
    /\ { out[n].pid : n \in DOMAIN out }
         = { p \in PidsIn(d) : \E f \in FeatureIds : CountIn(d, p, f) > 0 }
    /\ \A n \in DOMAIN out :
         /\ out[n].label = IF \E r \in d.hf : r.pid = out[n].pid THEN 1 ELSE 0
         /\ { out[n].pairs[k] : k \in DOMAIN out[n].pairs }
              = { <<f, Divide(CountIn(d, out[n].pid, f), MaxIn(d, f))>> :
                    f \in { g \in FeatureIds : CountIn(d, out[n].pid, g) > 0 } }

\* C20: each partition is normalized on its own: the per-feature maxima
\* and the whole file of the validation pass are determined by the tables
\* read from the validation path, whatever the training tables are, and
\* the training file by the training tables, whatever the validation
\* tables are.
C20_PartitionsIndependent ==
    pc = "returned" =>
        /\ FileOf(data.val, files.val)
        /\ FileOf(data.train, files.train)

\* Both files have a line and the maximum count of a feature is larger in
\* the training tables than in the validation tables.
C20_Witness ==
    /\ pc = "returned"
    /\ files.val # <<>>
    /\ \E f \in FeatureIds :
         /\ MaxIn(data.val, f) > 0
         /\ MaxIn(data.train, f) > MaxIn(data.val, f)

\* The label and the pairs of each line, as written.
Written(lines) ==
    [n \in DOMAIN lines |-> [label |-> lines[n].label, pairs |-> lines[n].pairs]]

FilteredPids == { filtered_events[i].pid : i \in DOMAIN filtered_events }

\* C24: every normalized value is derived from a maximum that has seen the
\* raw count of every patient of the run for its feature: normalized values
\* exist only next to the complete table of counts, and the divisor of each
\* (its count over its value) is at least every patient's count of that
\* feature and is the count of one of them.
C24_MaxSeesEveryPatientFirst ==
    aggregated_events # <<>> =>
        /\ \A p \in FilteredPids, f \in FeatureIds :
             FilteredCount(p, f) > 0 => CountRowsOf(p, f) # {}
        /\ \A i \in DOMAIN aggregated_events :
             LET v == aggregated_events[i].feature_value
                 c == aggregated_counts[i].feature_value
                 f == aggregated_events[i].feature_id
             IN  /\ \A p \in FilteredPids : FilteredCount(p, f) * v[1] <= c * v[2]
                 /\ \E p \in FilteredPids : FilteredCount(p, f) * v[1] = c * v[2]

\* The patient with the smaller count of a feature comes first in the
\* table and the larger count comes after it.
C24_Witness ==
    /\ pc = "create_features"
    /\ \E i, k \in DOMAIN aggregated_counts :
         /\ i < k
         /\ aggregated_counts[i].feature_id = aggregated_counts[k].feature_id
         /\ aggregated_counts[i].feature_value < aggregated_counts[k].feature_value
         /\ aggregated_events[i].feature_value = <<1, 2>>

\* The control patients all of whose event rows carry one and the same vid.
SingleVisitControls ==
    { p \in EventPids \ HfPids : \A i, j \in RowsOf(p) : events[i].vid = events[j].vid }

\* C25: a control patient whose events all belong to a single visit gets
\* that visit's vid as index vid, has no filtered event, no aggregated
\* feature and no line.
C25_SingleVisitControlHasNoLine ==
    \A p \in SingleVisitControls :
        /\ IndexDone => \A i \in RowsOf(p) : IndexVisitOf(p) = events[i].vid
        /\ FilterDone => p \notin FilteredPids
        /\ AggregateDone => p \notin AggregatedPids
        /\ pc = "done" => p \notin LinePids

\* A single-visit control patient with two events at visit 1, next to a
\* patient that has a line.
C25_Witness ==
    /\ pc = "done"
    /\ LinePids # {}
    /\ \E p \in SingleVisitControls :
         /\ Cardinality(RowsOf(p)) = 2
         /\ \A i \in RowsOf(p) : events[i].vid = 1

\* C26: the feature ids of a run come from the FeatureMap passed to it:
\* every counted (patient, feature id) has a filtered event of the patient
\* whose code feature_map_in maps to that id, whatever the module-level
\* feature_map holds. aggregate_events merges with the module-level table.
C26_FeatureIdsFromArgument ==
    AggregateDone =>
        \A i \in DOMAIN aggregated_counts :
            \E j \in DOMAIN filtered_events :
                /\ filtered_events[j].pid = aggregated_counts[i].pid
                /\ [idx |-> aggregated_counts[i].feature_id,
                    event_id |-> filtered_events[j].event_id] \in feature_map_in

\* C28: the tables passed in are left as read: after each stage events, hf
\* and feature_map_in hold the rows of the csv files; rewriting a case
\* patient's index vid changes no vid of events.
C28_InputsUnchanged ==
    Csv(events, hf, feature_map_in) = data[partition]

\* A case patient whose index vid was rewritten to another value than the
\* vid of its last event row.
C28_Witness ==
    /\ pc = "done"
    /\ \E p \in EventPids \cap HfPids :
         \E i \in RowsOf(p) :
            /\ \A j \in RowsOf(p) : j <= i
            /\ IndexVisitOf(p) # events[i].vid

IndexPids == { indx_vid[j].pid : j \in DOMAIN indx_vid }

\* C27: filter_events drops every event whose patient has no row in the
\* table of index vids it is given, without an error: the result holds, in
\* the order of events, exactly the rows whose patient has a row in the
\* table with a larger indx_vid.
C27_EventsWithoutIndexDropped ==
    /\ pc \in {"filter_events", "aggregate_events"}
    /\ pc = "aggregate_events" =>
         /\ \A i \in DOMAIN filtered_events : filtered_events[i].pid \in IndexPids
         /\ filtered_events
              = SeqOfIdx([i \in DOMAIN events |->
                            [pid |-> events[i].pid, event_id |-> events[i].event_id,
                             value |-> events[i].value]],
                         { i \in DOMAIN events :
                             \E j \in DOMAIN indx_vid :
                                /\ indx_vid[j].pid = events[i].pid
                                /\ events[i].vid < indx_vid[j].indx_vid })

\* An event of a patient without a row in the table, at a vid below the
\* index vid of another patient whose event is kept.
C27_Witness ==
    /\ pc = "aggregate_events"
    /\ filtered_events # <<>>
    /\ \E i \in DOMAIN events :
         /\ events[i].pid \notin IndexPids
         /\ \E j \in DOMAIN indx_vid : events[i].vid < indx_vid[j].indx_vid

\* Number of visits of patient a (0-based) of the batch, and of codes of
\* its visit b.
NumVisits(a) == Len(sequences[a + 1])
NumCodes(a, b) == Len(sequences[a + 1][b + 1])

BatchVisits == MaxOf([a \in DOMAIN sequences |-> Len(sequences[a])])
BatchCodes ==
    MaxOf(Flatten([a \in DOMAIN sequences |->
                     [b \in DOMAIN sequences[a] |-> Len(sequences[a][b])]]))

\* C21: x and masks have the shape (patients, most visits of a patient,
\* most codes of a visit); x[a][b][c] is the c-th code of the b-th visit of
\* patient a where there is one and 0 elsewhere, and masks[a][b][c] is true
\* exactly where there is one.
C21_PaddedToBatchShape ==
    pc = "collated" =>
        /\ DOMAIN batch_x = 0..(Len(sequences) - 1)
        /\ DOMAIN masks = DOMAIN batch_x
        /\ \A a \in DOMAIN batch_x :
             /\ DOMAIN batch_x[a] = 0..(BatchVisits - 1)
             /\ DOMAIN masks[a] = DOMAIN batch_x[a]
             /\ \A b \in DOMAIN batch_x[a] :
                  /\ DOMAIN batch_x[a][b] = 0..(BatchCodes - 1)
                  /\ DOMAIN masks[a][b] = DOMAIN batch_x[a][b]
                  /\ \A c \in DOMAIN batch_x[a][b] :
                       LET real == b < NumVisits(a) /\ c < NumCodes(a, b)
                       IN  /\ masks[a][b][c] = real
                           /\ batch_x[a][b][c]
                                = IF real THEN sequences[a + 1][b + 1][c + 1] ELSE 0

\* A batch with a padding visit, a padded code position, and a real code 0.
C21_Witness ==
    /\ pc = "collated"
    /\ \E a \in DOMAIN batch_x : NumVisits(a) < BatchVisits
    /\ \E a \in DOMAIN batch_x : \E b \in 0..(NumVisits(a) - 1) :
         /\ NumCodes(a, b) < BatchCodes
         /\ \E c \in 0..(NumCodes(a, b) - 1) : batch_x[a][b][c] = 0 /\ masks[a][b][c]

\* C22: the reversed outputs flip the true visits only: for a patient with
\* n visits, rev_x[a][b] = x[a][n-1-b] and rev_masks[a][b] = masks[a][n-1-b]
\* for b < n, and the rows b >= n are all-zero padding.
C22_ReverseFlipsTrueVisitsOnly ==
    pc = "collated" =>
        /\ DOMAIN rev_x = DOMAIN batch_x
        /\ DOMAIN rev_masks = DOMAIN batch_x
        /\ \A a \in DOMAIN batch_x :
             /\ DOMAIN rev_x[a] = DOMAIN batch_x[a]
             /\ DOMAIN rev_masks[a] = DOMAIN batch_x[a]
             /\ \A b \in DOMAIN batch_x[a] :
                  IF b < NumVisits(a)
                  THEN /\ rev_x[a][b] = batch_x[a][NumVisits(a) - 1 - b]
                       /\ rev_masks[a][b] = masks[a][NumVisits(a) - 1 - b]
                  ELSE /\ rev_x[a][b] = [c \in 0..(BatchCodes - 1) |-> 0]
                       /\ rev_masks[a][b] = [c \in 0..(BatchCodes - 1) |-> FALSE]

\* A patient with two visits that differ, next to a patient with one
\* visit and one padding row.
C22_Witness ==
    /\ pc = "collated"
    /\ \E a \in DOMAIN batch_x :
         /\ NumVisits(a) = 2
         /\ batch_x[a][0] # batch_x[a][1]
         /\ rev_x[a][0] = batch_x[a][1]
    /\ \E a \in DOMAIN batch_x :
         /\ NumVisits(a) = 1
         /\ BatchVisits = 2
         /\ \E c \in DOMAIN rev_masks[a][0] : rev_masks[a][0][c]

TestSet(f) == { folds[f].test[t] : t \in DOMAIN folds[f].test }
TrainSet(f) == { folds[f].train[t] : t \in DOMAIN folds[f].train }

\* C23: over the k iterations of get_f1_kfold the test index sets are
\* pairwise disjoint and together cover 0..n-1, so every sample is test
\* data exactly once and training data in the other k-1 iterations, for
\* every n >= k. The code takes groups of n // k samples, so the last
\* n mod k samples are in no test set.
C23_FoldsPartitionAllSamples ==
    pc = "kfold_done" =>
        /\ \A f, g \in DOMAIN folds : f # g => TestSet(f) \cap TestSet(g) = {}
        /\ UNION { TestSet(f) : f \in DOMAIN folds } = 0..(fold_n - 1)
        /\ \A a \in 0..(fold_n - 1) :
             /\ Cardinality({ f \in DOMAIN folds : a \in TestSet(f) }) = 1
             /\ Cardinality({ f \in DOMAIN folds : a \in TrainSet(f) }) = fold_k - 1

\* Visit b of patient a has an unmasked code position.
RealVisit(a, b) == \E c \in DOMAIN masks[a][b] : masks[a][b][c]

RealVisits(a) == { b \in DOMAIN masks[a] : RealVisit(a, b) }

\* The real visits of patient a are the first n positions, n >= 1.
RealPrefix(a) ==
    /\ RealVisits(a) # {}
    /\ \A b \in RealVisits(a) : \A d \in 0..b : d \in RealVisits(a)

\* C29: for every patient whose real visits (those with an unmasked code)
\* form a prefix of the visit axis, get_last_visit returns the hidden
\* state at index n-1, n the number of real visits.
C29_LastTrueVisitState ==
    pc = "last_visit_done" =>
        \A a \in DOMAIN masks :
            RealPrefix(a) =>
                last_hidden_states[a] = hidden_states[a][Cardinality(RealVisits(a)) - 1]

\* A patient with one real visit, whose only unmasked code is not the
\* first, followed by padding; another patient with every visit real.
C29_Witness ==
    /\ pc = "last_visit_done"
    /\ \E a \in DOMAIN masks :
         /\ RealVisits(a) = {0}
         /\ ~masks[a][0][0]
         /\ last_hidden_states[a] = <<a, 0>>
    /\ \E a \in DOMAIN masks : RealVisits(a) = DOMAIN masks[a]

====
